---- MODULE Spec2Model ----
(***************************************************************************)
(* A model of ratzilla's DOM backend utilities (src/backend/utils.rs):     *)
(* the cell-to-CSS style compositor, the inline style patch engine and     *)
(* the viewport sizing functions.                                          *)
(*                                                                         *)
(* A Rust string is a sequence of one-character strings; a Vec is a        *)
(* sequence; an Option is a record [some, v].                              *)
(***************************************************************************)
EXTENDS Integers, Sequences, FiniteSets

VARIABLES
    elem,       \* the Element's `style` attribute: an Option of a string
    op,         \* the operation that ran last
    attribute,  \* the CssAttribute of the last update_css_field call
    prev,       \* the CssAttribute of the call before it, if any
    css,        \* update_css_field's local `css`: the attribute text it read
    styles,     \* update_css_field's local `styles`, as handed to build_inline_style
    nops,       \* number of update_css_field calls on the element so far
    cell,       \* the Cell the element was created from (create_span)
    host,       \* the host environment the last geometry query saw
    size,       \* the value the last geometry query returned
    panicked    \* whether the last geometry query panicked

vars == <<elem, op, attribute, prev, css, styles, nops, cell, host, size, panicked>>

----------------------------------------------------------------------------
(* Option<T> *)

None == [some |-> FALSE, v |-> <<>>]

Some(x) == [some |-> TRUE, v |-> x]

\* Option::unwrap_or_default for Option<String>
UnwrapOrDefault(o) ==
    IF o.some THEN o.v ELSE <<>>

----------------------------------------------------------------------------
(* str helpers of the Rust standard library, as the code uses them *)

\* char::is_whitespace, on the characters the model's strings are made of
IsWhitespace(c) ==
    c = " "

RECURSIVE TrimStart(_)
TrimStart(s) ==
    IF s = <<>> THEN s
    ELSE IF IsWhitespace(Head(s)) THEN TrimStart(Tail(s))
    ELSE s

RECURSIVE TrimEnd(_)
TrimEnd(s) ==
    IF s = <<>> THEN s
    ELSE IF IsWhitespace(s[Len(s)]) THEN TrimEnd(SubSeq(s, 1, Len(s) - 1))
    ELSE s

\* str::trim
Trim(s) ==
    TrimEnd(TrimStart(s))

\* the index of the first occurrence of the character sep in s, 0 if none
Find(s, sep) ==
    LET hits == {i \in 1..Len(s) : s[i] = sep}
    IN  IF hits = {} THEN 0 ELSE CHOOSE i \in hits : \A j \in hits : i <= j

\* str::split(sep): every piece between separators, empty pieces included
RECURSIVE Split(_, _)
Split(s, sep) ==
    LET i == Find(s, sep)
    IN  IF i = 0 THEN <<s>>
        ELSE <<SubSeq(s, 1, i - 1)>> \o Split(SubSeq(s, i + 1, Len(s)), sep)

\* str::splitn(2, sep): at most two pieces, cut at the first separator
SplitN2(s, sep) ==
    LET i == Find(s, sep)
    IN  IF i = 0 THEN <<s>>
        ELSE <<SubSeq(s, 1, i - 1), SubSeq(s, i + 1, Len(s))>>

UpperCase == <<"A", "B", "C", "D", "E", "F", "G", "H", "I", "J", "K", "L", "M", "N", "O", "P", "Q", "R", "S", "T", "U", "V", "W", "X", "Y", "Z">>

LowerCase == <<"a", "b", "c", "d", "e", "f", "g", "h", "i", "j", "k", "l", "m", "n", "o", "p", "q", "r", "s", "t", "u", "v", "w", "x", "y", "z">>

\* u8::to_ascii_lowercase
ToAsciiLowercase(c) ==
    LET hits == {i \in 1..Len(UpperCase) : UpperCase[i] = c}
    IN  IF hits = {} THEN c ELSE LowerCase[CHOOSE i \in hits : TRUE]

\* str::eq_ignore_ascii_case
EqIgnoreAsciiCase(a, b) ==
    /\ Len(a) = Len(b)
    /\ \A i \in 1..Len(a) : ToAsciiLowercase(a[i]) = ToAsciiLowercase(b[i])

Digits == <<"0", "1", "2", "3", "4", "5", "6", "7", "8", "9">>

\* Display for an unsigned integer: its decimal digits
RECURSIVE DisplayInt(_)
DisplayInt(n) ==
    IF n < 10 THEN <<Digits[n + 1]>>
    ELSE DisplayInt(n \div 10) \o <<Digits[(n % 10) + 1]>>

----------------------------------------------------------------------------
(* The inline style patch engine *)

\* the closure of parse_inline_style's filter_map: zero or one (key, val) pair
ParseDecl(piece) ==
    LET decl == Trim(piece)
    IN  IF decl = <<>> THEN <<>>
        ELSE LET parts == SplitN2(decl, ":")
             IN  IF Len(parts) < 2 THEN <<>>
                 ELSE LET key == Trim(parts[1])
                          val == Trim(parts[2])
                      IN  IF key = <<>> \/ val = <<>> THEN <<>>
                          ELSE << <<key, val>> >>

RECURSIVE FilterMapParse(_)
FilterMapParse(pieces) ==
    IF pieces = <<>> THEN <<>>
    ELSE ParseDecl(Head(pieces)) \o FilterMapParse(Tail(pieces))

parse_inline_style(text) ==
    FilterMapParse(Split(text, ";"))

RECURSIVE build_inline_style(_)
build_inline_style(pairs) ==
    IF pairs = <<>> THEN <<>>
    ELSE Head(pairs)[1] \o <<":", " ">> \o Head(pairs)[2] \o <<";">>
         \o build_inline_style(Tail(pairs))

\* a set_or_remove_style_attribute that always sets the attribute
set_style_attribute_always(text) ==
    Some(text)

set_or_remove_style_attribute(text) ==
    IF text = <<>> THEN None ELSE Some(text)

\* a Some(new_val) arm without the `break`: every matching entry is changed
SetFieldEveryMatch(pairs, target, new_val) ==
    LET hits == {i \in 1..Len(pairs) : EqIgnoreAsciiCase(pairs[i][1], target)}
    IN  IF hits = {} THEN Append(pairs, <<target, new_val>>)
        ELSE [i \in 1..Len(pairs) |->
                IF i \in hits THEN <<pairs[i][1], new_val>> ELSE pairs[i]]

\* the Some(new_val) arm: the first entry matching target gets new_val, and
\* when none matches (target, new_val) is pushed
SetField(pairs, target, new_val) ==
    LET hits == {i \in 1..Len(pairs) : EqIgnoreAsciiCase(pairs[i][1], target)}
    IN  IF hits = {} THEN Append(pairs, <<target, new_val>>)
        ELSE LET first == CHOOSE i \in hits : \A j \in hits : i <= j
             IN  [pairs EXCEPT ![first] = <<pairs[first][1], new_val>>]

\* a None arm that compares the names with ==, case included
RetainFieldExactCase(pairs, target) ==
    SelectSeq(pairs, LAMBDA p : p[1] # target)

\* the None arm: retain the entries that do not match target
RetainField(pairs, target) ==
    SelectSeq(pairs, LAMBDA p : ~EqIgnoreAsciiCase(p[1], target))

\* the vector update_css_field hands to build_inline_style
UpdatedStyles(text, attr) ==
    LET parsed == parse_inline_style(text)
        target == Trim(attr.field)
    IN  IF attr.value.some
        THEN SetField(parsed, target, Trim(attr.value.v))
        ELSE RetainField(parsed, target)

----------------------------------------------------------------------------
(* The style compositor *)

\* ratatui's Modifier flags
Modifiers == {"BOLD", "DIM", "ITALIC", "UNDERLINED", "HIDDEN", "CROSSED_OUT", "REVERSED"}

\* Color::Reset, the unset colour
Reset == [kind |-> "Reset", rgb |-> <<0, 0, 0>>]

\* Color::Rgb(r, g, b)
Rgb(r, g, b) == [kind |-> "Rgb", rgb |-> <<r, g, b>>]

\* backend::color::ansi_to_rgb: None for the unset colour, an explicit RGB
\* value passes through unchanged
ansi_to_rgb(color) ==
    IF color.kind = "Reset" THEN None ELSE Some(color.rgb)

BrailleFirst == 10240

BrailleLast == 10495

\* contains_braille: the symbol's first char lies in U+2800..=U+28FF
contains_braille(c) ==
    /\ c.symbol # <<>>
    /\ BrailleFirst <= Head(c.symbol)
    /\ Head(c.symbol) <= BrailleLast

\* unicode_width's width of one char, for the code points the model's
\* symbols are made of: 0 for a combining mark, 2 for a CJK ideograph
CharWidth(cp) ==
    IF cp = 769 THEN 0
    ELSE IF cp = 20013 THEN 2
    ELSE 1

\* UnicodeWidthStr::width: the sum of the chars' widths
RECURSIVE Width(_)
Width(symbol) ==
    IF symbol = <<>> THEN 0
    ELSE CharWidth(Head(symbol)) + Width(Tail(symbol))

\* "rgb({}, {}, {})" of a triple
RgbText(color) ==
    <<"r", "g", "b", "(">> \o DisplayInt(color[1]) \o <<",", " ">> \o DisplayInt(color[2])
    \o <<",", " ">> \o DisplayInt(color[3]) \o <<")">>

\* a compositor that forgets the REVERSED swap
NeverSwappedColors(c) ==
    [fg |-> ansi_to_rgb(c.fg), bg |-> ansi_to_rgb(c.bg)]

\* fg and bg after the REVERSED swap
SwappedColors(c) ==
    LET fg == ansi_to_rgb(c.fg)
        bg == ansi_to_rgb(c.bg)
    IN  IF "REVERSED" \in c.modifier
        THEN [fg |-> bg, bg |-> fg]
        ELSE [fg |-> fg, bg |-> bg]

\* an fg_style whose fallback is black
fg_style_black_fallback(c) ==
    LET fg == SwappedColors(c).fg
    IN  IF fg.some THEN <<"c", "o", "l", "o", "r", ":", " ">> \o RgbText(fg.v) \o <<";">>
        ELSE <<"c", "o", "l", "o", "r", ":", " ", "r", "g", "b", "(", "0", ",", " ", "0", ",", " ", "0", ")", ";">>

fg_style(c) ==
    LET fg == SwappedColors(c).fg
    IN  IF fg.some THEN <<"c", "o", "l", "o", "r", ":", " ">> \o RgbText(fg.v) \o <<";">>
        ELSE <<"c", "o", "l", "o", "r", ":", " ", "r", "g", "b", "(", "2", "5", "5", ",", " ", "2", "5", "5", ",", " ", "2", "5", "5", ")", ";">>

bg_style(c) ==
    LET bg == SwappedColors(c).bg
    IN  IF bg.some THEN <<"b", "a", "c", "k", "g", "r", "o", "u", "n", "d", "-", "c", "o", "l", "o", "r", ":", " ">> \o RgbText(bg.v) \o <<";">>
        ELSE IF "REVERSED" \in c.modifier
             THEN <<"b", "a", "c", "k", "g", "r", "o", "u", "n", "d", "-", "c", "o", "l", "o", "r", ":", " ", "r", "g", "b", "(", "2", "5", "5", ",", " ", "2", "5", "5", ",", " ", "2", "5", "5", ")", ";">>
             ELSE <<"b", "a", "c", "k", "g", "r", "o", "u", "n", "d", "-", "c", "o", "l", "o", "r", ":", " ", "t", "r", "a", "n", "s", "p", "a", "r", "e", "n", "t", ";">>

modifier_style(c) ==
    (IF "BOLD" \in c.modifier THEN <<"f", "o", "n", "t", "-", "w", "e", "i", "g", "h", "t", ":", " ", "b", "o", "l", "d", ";", " ">> ELSE <<>>)
    \o (IF "DIM" \in c.modifier THEN <<"o", "p", "a", "c", "i", "t", "y", ":", " ", "0", ".", "5", ";", " ">> ELSE <<>>)
    \o (IF "ITALIC" \in c.modifier THEN <<"f", "o", "n", "t", "-", "s", "t", "y", "l", "e", ":", " ", "i", "t", "a", "l", "i", "c", ";", " ">> ELSE <<>>)
    \o (IF "UNDERLINED" \in c.modifier THEN <<"t", "e", "x", "t", "-", "d", "e", "c", "o", "r", "a", "t", "i", "o", "n", ":", " ", "u", "n", "d", "e", "r", "l", "i", "n", "e", ";", " ">> ELSE <<>>)
    \o (IF "HIDDEN" \in c.modifier THEN <<"v", "i", "s", "i", "b", "i", "l", "i", "t", "y", ":", " ", "h", "i", "d", "d", "e", "n", ";", " ">> ELSE <<>>)
    \o (IF "CROSSED_OUT" \in c.modifier THEN <<"t", "e", "x", "t", "-", "d", "e", "c", "o", "r", "a", "t", "i", "o", "n", ":", " ", "l", "i", "n", "e", "-", "t", "h", "r", "o", "u", "g", "h", ";", " ">> ELSE <<>>)

braille_style(c) ==
    IF contains_braille(c) THEN <<"f", "o", "n", "t", "-", "v", "a", "r", "i", "a", "n", "t", "-", "n", "u", "m", "e", "r", "i", "c", ":", " ", "t", "a", "b", "u", "l", "a", "r", "-", "n", "u", "m", "s", ";", " ">> ELSE <<>>

sizing(c) ==
    <<"d", "i", "s", "p", "l", "a", "y", ":", " ", "i", "n", "l", "i", "n", "e", "-", "b", "l", "o", "c", "k", ";", " ", "w", "i", "d", "t", "h", ":", " ">> \o DisplayInt(Width(c.symbol)) \o <<"c", "h", ";">>

get_cell_style_as_css(c) ==
    fg_style(c) \o <<" ">> \o bg_style(c) \o <<" ">> \o modifier_style(c) \o <<" ">>
    \o braille_style(c) \o <<" ">> \o sizing(c)

----------------------------------------------------------------------------
(* The viewport sizing model *)

\* 2^16: `as u16` keeps an integer's low 16 bits
U16Modulus == 65536

\* the fallback of get_raw_window_size, for both components
DefaultSize == 120

\* the cell's pixel width and height get_sized_buffer_from_canvas divides by
CellWidthPx == 10

CellHeightPx == 19

\* what a host getter hands back: Err(_), or Ok of a JsValue that is a
\* number or is not one (undefined)
JsErr == [ok |-> FALSE, number |-> FALSE, num |-> 0]

JsUndefined == [ok |-> TRUE, number |-> FALSE, num |-> 0]

JsNumber(n) == [ok |-> TRUE, number |-> TRUE, num |-> n]

\* `i as usize` of an f64: the cast saturates, a negative value to 0. The
\* model's numbers are integral and below 2^31, so none reaches usize::MAX
F64AsUsize(x) ==
    IF x < 0 THEN 0 ELSE x

\* js_val_to_int::<u16> after Result::ok: None for Err, for a value that is
\* not a number and for one u16::try_from rejects
js_val_to_int(r) ==
    IF ~r.ok \/ ~r.number THEN None
    ELSE IF F64AsUsize(r.num) < U16Modulus THEN Some(F64AsUsize(r.num))
    ELSE None

\* the outcome of a geometry query: a value, or a panic
Returned(w, h) == [panic |-> FALSE, value |-> <<w, h>>]

Panic == [panic |-> TRUE, value |-> <<0, 0>>]

get_raw_window_size(h) ==
    LET w == js_val_to_int(h.width)
        t == js_val_to_int(h.height)
    IN  IF h.window /\ w.some /\ t.some
        THEN Returned(w.v, t.v)
        ELSE Returned(DefaultSize, DefaultSize)

\* window().unwrap().screen().unwrap(), then width().unwrap() and
\* height().unwrap(): each unwrap panics on None or Err
get_raw_screen_size(h) ==
    IF ~h.window \/ ~h.screen \/ ~h.width.ok \/ ~h.height.ok
    THEN Panic
    ELSE Returned(h.width.num, h.height.num)

\* the (columns, rows) of the buffer get_sized_buffer_from_canvas allocates
get_sized_buffer_from_canvas(h) ==
    Returned((h.width.num % U16Modulus) \div CellWidthPx,
             (h.height.num % U16Modulus) \div CellHeightPx)

----------------------------------------------------------------------------
(* Inputs *)

\* how many update_css_field calls one element receives
MaxOps == 2

\* the style texts an element is created with (create_elem_with_style)
StyleTexts ==
    { <<>>,
      <<"c", "o", "l", "o", "r", ":", " ", "r", "e", "d", ";">>,
      <<"C", "O", "L", "O", "R", ":", "r", "e", "d">>,
      <<"c", "o", "l", "o", "r", ":", " ", "r", "e", "d", ";", " ", "w", "i", "d", "t", "h", ":", " ", "1", "c", "h", ";">>,
      <<"w", "i", "d", "t", "h", ":", " ", "1", "c", "h", ";", "c", "o", "l", "o", "r", ":", " ", "r", "e", "d", ";">>,
      <<"c", "o", "l", "o", "r", ":", " ", "r", "e", "d", ";", "w", "i", "d", "t", "h", ":", " ", "1", "c", "h", ";", "C", "o", "l", "o", "r", ":", " ", "b", "l", "u", "e", ";">>,
      <<" ", ";", " ", "c", "o", "l", "o", "r", ";", " ", ":", "r", "e", "d", ";", " ", "w", "i", "d", "t", "h", " ", ":", " ", "1", "c", "h", " ", ";", ";">>,
      <<"w", "i", "d", "t", "h", ":", " ", "a", ":", "b", ";">> }

\* CssAttribute.field
Fields ==
    { <<"c", "o", "l", "o", "r">>, <<" ", "C", "O", "L", "O", "R", " ">>, <<"w", "i", "d", "t", "h">>, <<"c", "o", "l", "o", "r", ":", "x">>, <<"c", "o", "l", "o", "r", ";", "x">> }

\* CssAttribute.value, when it is Some
Values ==
    { <<"g", "r", "e", "e", "n">>, <<" ", "b", "l", "u", "e", " ">>, <<" ">>, <<"a", ":", "b">>, <<"r", "e", "d", ";", "w", "i", "d", "t", "h", ":", " ", "2", "c", "h">> }

Attributes ==
    [field : Fields, value : {None} \cup {Some(v) : v \in Values}]

Colors == {Reset, Rgb(255, 0, 0), Rgb(0, 128, 7)}

\* "A", a CJK ideograph, a braille pattern, "A" with a combining accent
Symbols == { <<65>>, <<20013>>, <<10495>>, <<65, 769>> }

Cells ==
    [fg : Colors, bg : Colors, modifier : SUBSET Modifiers, symbol : Symbols]

\* Cell::default()
DefaultCell == [fg |-> Reset, bg |-> Reset, modifier |-> {}, symbol |-> <<32>>]

\* the cells of the patch engine's elements: glyph "A", a red foreground,
\* no background, bold; and one with two text decorations
ExampleCells ==
    { [fg |-> Rgb(255, 0, 0), bg |-> Reset, modifier |-> {"BOLD"}, symbol |-> <<65>>],
      [fg |-> Reset, bg |-> Reset, modifier |-> {"UNDERLINED", "CROSSED_OUT"},
       symbol |-> <<65>>] }

Pixels == {0, 9, 10, 19, 190, 1000, 65535, 65536, 65546, 131091}

JsResults ==
    {JsErr, JsUndefined} \cup {JsNumber(n) : n \in {-1, 0, 800, 65535, 65536, 2147483647}}

WindowHosts ==
    [window : BOOLEAN, screen : {TRUE}, width : JsResults, height : JsResults]

ScreenHosts ==
    [window : BOOLEAN, screen : BOOLEAN,
     width : {JsErr, JsNumber(0), JsNumber(1080)},
     height : {JsErr, JsNumber(0), JsNumber(1920)}]

CanvasHosts ==
    [window : {TRUE}, screen : {TRUE},
     width : {JsNumber(n) : n \in Pixels}, height : {JsNumber(n) : n \in Pixels}]

NoHost == [window |-> TRUE, screen |-> TRUE, width |-> JsErr, height |-> JsErr]

NoAttribute == [field |-> <<>>, value |-> None]

----------------------------------------------------------------------------
(* The state machine *)

Init ==
    /\ elem = None
    /\ op = "none"
    /\ attribute = NoAttribute
    /\ prev = None
    /\ css = <<>>
    /\ styles = <<>>
    /\ nops = 0
    /\ cell = DefaultCell
    /\ host = NoHost
    /\ size = <<0, 0>>
    /\ panicked = FALSE

\* a new element, its style attribute set when s is not empty
create_elem_with_style(s) ==
    /\ op = "none"
    /\ elem' = (IF s # <<>> THEN Some(s) ELSE None)
    /\ op' = "create_elem"
    /\ UNCHANGED <<attribute, prev, css, styles, nops, cell, host, size, panicked>>

\* a new <span> whose style attribute is the cell's style
create_span(c) ==
    /\ op = "none"
    /\ elem' = Some(get_cell_style_as_css(c))
    /\ cell' = c
    /\ op' = "create_span"
    /\ UNCHANGED <<attribute, prev, css, styles, nops, host, size, panicked>>

update_css_field(attr) ==
    /\ op \in {"create_elem", "create_span", "update"}
    /\ nops < MaxOps
    /\ css' = UnwrapOrDefault(elem)
    /\ styles' = UpdatedStyles(css', attr)
    /\ elem' = set_or_remove_style_attribute(build_inline_style(styles'))
    /\ attribute' = attr
    /\ prev' = (IF op = "update" THEN Some(attribute) ELSE None)
    /\ nops' = nops + 1
    /\ op' = "update"
    /\ UNCHANGED <<cell, host, size, panicked>>

\* the three geometry queries: h is what the host answers
RawWindowSize(h) ==
    /\ op \in {"none", "window", "screen", "canvas"}
    /\ host' = h
    /\ panicked' = get_raw_window_size(h).panic
    /\ size' = (IF panicked' THEN size ELSE get_raw_window_size(h).value)
    /\ op' = "window"
    /\ UNCHANGED <<elem, attribute, prev, css, styles, nops, cell>>

RawScreenSize(h) ==
    /\ op \in {"none", "window", "screen", "canvas"}
    /\ host' = h
    /\ panicked' = get_raw_screen_size(h).panic
    /\ size' = (IF panicked' THEN size ELSE get_raw_screen_size(h).value)
    /\ op' = "screen"
    /\ UNCHANGED <<elem, attribute, prev, css, styles, nops, cell>>

SizedBufferFromCanvas(h) ==
    /\ op \in {"none", "window", "screen", "canvas"}
    /\ host' = h
    /\ panicked' = get_sized_buffer_from_canvas(h).panic
    /\ size' = (IF panicked' THEN size ELSE get_sized_buffer_from_canvas(h).value)
    /\ op' = "canvas"
    /\ UNCHANGED <<elem, attribute, prev, css, styles, nops, cell>>

\* the patch engine: elements and the updates of their style attribute
Next ==
    \/ \E s \in StyleTexts : create_elem_with_style(s)
    \/ \E c \in ExampleCells : create_span(c)
    \/ \E a \in Attributes : update_css_field(a)

Spec == Init /\ [][Next]_vars

\* the style compositor: a span of every cell
NextCell ==
    \E c \in Cells : create_span(c)

SpecCell == Init /\ [][NextCell]_vars

\* the sizing model: the three geometry queries, in any order
NextSize ==
    \/ \E h \in WindowHosts : RawWindowSize(h)
    \/ \E h \in ScreenHosts : RawScreenSize(h)
    \/ \E h \in CanvasHosts : SizedBufferFromCanvas(h)

SpecSize == Init /\ [][NextSize]_vars

----------------------------------------------------------------------------
(* Properties of the patch engine, checked under Spec *)

\* the declaration an element carries: its style attribute, parsed
Declaration(e) ==
    parse_inline_style(UnwrapOrDefault(e))

Matches(pair, name) ==
    EqIgnoreAsciiCase(pair[1], name)

\* no two entries have the same name, ignoring ASCII case
UniqueNames(pairs) ==
    \A i, j \in 1..Len(pairs) : i # j => ~Matches(pairs[i], pairs[j][1])

\* a is b with some entries left out
RECURSIVE IsSubsequence(_, _)
IsSubsequence(a, b) ==
    IF a = <<>> THEN TRUE
    ELSE IF b = <<>> THEN FALSE
    ELSE IF Head(a) = Head(b) THEN IsSubsequence(Tail(a), Tail(b))
    ELSE IsSubsequence(a, Tail(b))

WasSet == op = "update" /\ attribute.value.some

WasRemoved == op = "update" /\ ~attribute.value.some

\* C1: calling update_css_field with Some(v) a second time, with the same
\* field and value, leaves the style attribute as the first call left it.
C1_SetIsIdempotent ==
    [][(WasSet /\ op' = "update" /\ attribute' = attribute) => elem' = elem]_vars

\* C2: update_css_field with Some(v) and then with None for the same field
\* yields a declaration in which no entry matches the name and in which the
\* other pairs of the original declaration are all present, in their order.
\* (In the step below css is the text the Some(v) call read: the original.)
C2_SetThenRemove ==
    [][(WasSet /\ op' = "update" /\ ~attribute'.value.some
            /\ attribute'.field = attribute.field)
       => LET name == Trim(attribute.field)
              original == parse_inline_style(css)
              others == SelectSeq(original, LAMBDA p : ~Matches(p, name))
              result == Declaration(elem')
          IN  /\ \A i \in 1..Len(result) : ~Matches(result[i], name)
              /\ IsSubsequence(others, result)]_vars

\* C2's case: a Some(v) call that changed an existing entry of a declaration
\* with other entries, followed by the None call for the same field.
C2_Witness ==
    /\ WasRemoved
    /\ prev.some /\ prev.v.value.some /\ prev.v.field = attribute.field
    /\ \E i \in 1..Len(parse_inline_style(css)) :
            parse_inline_style(css)[i] = <<<<"c", "o", "l", "o", "r">>, <<"g", "r", "e", "e", "n">>>>
    /\ Declaration(elem) = << <<<<"w", "i", "d", "t", "h">>, <<"1", "c", "h">>>> >>

\* the pairs a Some(v) call is to leave: the first entry matching name gets
\* value, in place; with no such entry (appended, value) is added at the end
SetOutcome(original, name, appended, value, result) ==
    LET hits == {i \in 1..Len(original) : Matches(original[i], name)}
    IN  IF hits = {}
        THEN result = original \o << <<appended, value>> >>
        ELSE /\ Len(result) = Len(original)
             /\ \E k \in hits :
                    /\ \A j \in hits : k <= j
                    /\ result[k] = <<original[k][1], value>>
                    /\ \A i \in 1..Len(original) : i # k => result[i] = original[i]

C4_NamesStayUnique ==
    [][(op' = "update" /\ UniqueNames(Declaration(elem)))
       => /\ UniqueNames(Declaration(elem'))
          /\ attribute'.value.some =>
                LET result == Declaration(elem')
                    hits == {i \in 1..Len(result) :
                                Matches(result[i], Trim(attribute'.field))}
                IN  /\ Cardinality(hits) = 1
                    /\ \A i \in hits : result[i][2] = Trim(attribute'.value.v)]_vars

\* C5: after update_css_field the style attribute is never present and
\* empty: when no pair is left the attribute is absent, and otherwise it
\* holds the non-empty serialized pairs.
C5_NoEmptyStyleAttribute ==
    op = "update" =>
        /\ elem # Some(<<>>)
        /\ styles = <<>> => elem = None
        /\ styles # <<>> => elem = Some(build_inline_style(styles)) /\ elem.v # <<>>
        /\ (WasRemoved /\ Declaration(elem) = <<>>) => elem = None

\* C5's case: two None calls removed the two fields of a declaration.
C5_Witness ==
    /\ WasRemoved
    /\ prev.some /\ ~prev.v.value.some
    /\ Len(parse_inline_style(css)) = 1
    /\ elem = None

----------------------------------------------------------------------------
(* Properties of the style compositor, checked under SpecCell *)

White == <<"r", "g", "b", "(", "2", "5", "5", ",", " ", "2", "5", "5", ",", " ", "2", "5", "5", ")">>

\* the declaration has an entry name: value, and no other entry of that name
Emits(pairs, name, value) ==
    /\ \E i \in 1..Len(pairs) : pairs[i] = <<name, value>>
    /\ \A i \in 1..Len(pairs) : pairs[i][1] = name => pairs[i][2] = value

\* the cell with foreground and background exchanged and REVERSED cleared
Exchanged(c) ==
    [c EXCEPT !.fg = c.bg, !.bg = c.fg, !.modifier = c.modifier \ {"REVERSED"}]

\* C6, as stated: a cell with an unset foreground gets color: rgb(255, 255,
\* 255), whatever its background and modifiers; a cell with an unset
\* background and without REVERSED gets background-color: transparent.
C6_UnsetColorsDefault ==
    op = "create_span" =>
        /\ cell.fg = Reset => Emits(Declaration(elem), <<"c", "o", "l", "o", "r">>, White)
        /\ (cell.bg = Reset /\ "REVERSED" \notin cell.modifier)
              => Emits(Declaration(elem), <<"b", "a", "c", "k", "g", "r", "o", "u", "n", "d", "-", "c", "o", "l", "o", "r">>, <<"t", "r", "a", "n", "s", "p", "a", "r", "e", "n", "t">>)

\* C6, amended: the foreground is white for a cell with an unset foreground
\* that is not REVERSED or whose background is unset too; the background
\* part is as stated.
C6_UnsetColorsDefaultUnlessSwapped ==
    op = "create_span" =>
        /\ (cell.fg = Reset /\ ("REVERSED" \notin cell.modifier \/ cell.bg = Reset))
              => Emits(Declaration(elem), <<"c", "o", "l", "o", "r">>, White)
        /\ (cell.bg = Reset /\ "REVERSED" \notin cell.modifier)
              => Emits(Declaration(elem), <<"b", "a", "c", "k", "g", "r", "o", "u", "n", "d", "-", "c", "o", "l", "o", "r">>, <<"t", "r", "a", "n", "s", "p", "a", "r", "e", "n", "t">>)

\* C6's case: a span of a cell with neither colour set, with other modifiers.
C6_Witness ==
    /\ op = "create_span"
    /\ cell.fg = Reset /\ cell.bg = Reset
    /\ cell.modifier = {"BOLD", "DIM"}
    /\ Emits(Declaration(elem), <<"c", "o", "l", "o", "r">>, White)
    /\ Emits(Declaration(elem), <<"b", "a", "c", "k", "g", "r", "o", "u", "n", "d", "-", "c", "o", "l", "o", "r">>, <<"t", "r", "a", "n", "s", "p", "a", "r", "e", "n", "t">>)

\* C7, as stated: the style of a REVERSED cell is the style of the cell with
\* foreground and background exchanged and REVERSED cleared.
C7_ReversedIsExchanged ==
    (op = "create_span" /\ "REVERSED" \in cell.modifier)
        => elem = Some(get_cell_style_as_css(Exchanged(cell)))

\* C7, amended: so it is for a REVERSED cell whose foreground is set; with
\* the foreground unset the two styles differ in the background alone, which
\* is white for the REVERSED cell and transparent for the exchanged one.
C7_ReversedIsExchangedWhenFgSet ==
    (op = "create_span" /\ "REVERSED" \in cell.modifier) =>
        LET reversed == Declaration(elem)
            exchanged == parse_inline_style(get_cell_style_as_css(Exchanged(cell)))
        IN  IF cell.fg # Reset
            THEN elem = Some(get_cell_style_as_css(Exchanged(cell)))
            ELSE /\ Len(reversed) = Len(exchanged)
                 /\ reversed[2] = <<<<"b", "a", "c", "k", "g", "r", "o", "u", "n", "d", "-", "c", "o", "l", "o", "r">>, White>>
                 /\ exchanged[2] = <<<<"b", "a", "c", "k", "g", "r", "o", "u", "n", "d", "-", "c", "o", "l", "o", "r">>, <<"t", "r", "a", "n", "s", "p", "a", "r", "e", "n", "t">>>>
                 /\ \A i \in 1..Len(reversed) : i # 2 => reversed[i] = exchanged[i]

\* C7's case: a REVERSED cell with both colours set, and different.
C7_Witness ==
    /\ op = "create_span"
    /\ "REVERSED" \in cell.modifier
    /\ cell.fg = Rgb(255, 0, 0) /\ cell.bg = Rgb(0, 128, 7)
    /\ Emits(Declaration(elem), <<"c", "o", "l", "o", "r">>, <<"r", "g", "b", "(", "0", ",", " ", "1", "2", "8", ",", " ", "7", ")">>)
    /\ Emits(Declaration(elem), <<"b", "a", "c", "k", "g", "r", "o", "u", "n", "d", "-", "c", "o", "l", "o", "r">>, <<"r", "g", "b", "(", "2", "5", "5", ",", " ", "0", ",", " ", "0", ")">>)

\* C8: the declaration get_cell_style_as_css produces has unique property
\* names, ignoring case, for every cell and every set of modifiers.
C8_ComposedNamesUnique ==
    op = "create_span" => UniqueNames(Declaration(elem))

----------------------------------------------------------------------------
(* Properties of the sizing model, checked under SpecSize *)

\* C9: the buffer of a canvas has floor(client_width / 10) columns and
\* floor(client_height / 19) rows, so that it tiles the canvas up to a
\* partial cell, for every client width and height.
C9_CanvasGrid ==
    op = "canvas" =>
        LET w == host.width.num
            h == host.height.num
        IN  /\ ~panicked
            /\ size = <<w \div 10, h \div 19>>
            /\ size[1] * 10 <= w /\ w < (size[1] + 1) * 10
            /\ size[2] * 19 <= h /\ h < (size[2] + 1) * 19

\* a getter's answer that is no usable number: an error, a value that is not
\* a number, or a number above max
Unusable(r, max) ==
    ~r.ok \/ ~r.number \/ r.num > max

\* the host failed a geometry query of the window path or the screen path
QueryFailed ==
    \/ ~host.window
    \/ op = "window" /\ (Unusable(host.width, 65535) \/ Unusable(host.height, 65535))
    \/ op = "screen" /\ (~host.screen \/ Unusable(host.width, 2147483647)
                                      \/ Unusable(host.height, 2147483647))

\* C10: a geometry query the host fails, on the window path or on the screen
\* path, returns (120, 120) and does not panic.
C10_FailedQueryDefaults ==
    (op \in {"window", "screen"} /\ QueryFailed)
        => ~panicked /\ size = <<120, 120>>

====
